---- MODULE Spec2Model ----
(***************************************************************************)
(* Model of the scroll / layout subsystem of the meraki-26 front end:      *)
(*   - the Hash Navigator   (src/src/utils/scrollToSection.js)             *)
(*   - the FAQ masonry grid (src/src/components/SectionWrapper.jsx, Faq)   *)
(*   - the Section Composer (SectionWrapper.jsx, useScrollSection.js)      *)
(*   - the Character Walker (src/src/components/ScrollProgressCharacter.jsx)*)
(*   - the navbar hooks     (src/src/hooks/useScrollSection.js)            *)
(*   - the Smoothing Filter (useSpring in ScrollProgressBar.jsx)           *)
(*   - the Elite tab panel  (SectionWrapper.jsx, Elite)                    *)
(* Strings are sequences of characters, time is in milliseconds, and a     *)
(* timer fires exactly when the clock reaches its due time.                *)
(***************************************************************************)
EXTENDS Integers, Sequences, FiniteSets, TLC

(***************************************************************************)
(* Bounds of the model                                                     *)
(***************************************************************************)
MaxInvocations == 1
MaxOverlap == 2
MaxQuestions == 12

(***************************************************************************)
(* Program constants                                                       *)
(***************************************************************************)
InitialDelay == 100
RetryInterval == 100
MaxRetries == 10
BreakpointLg == 1024
BreakpointSm == 640
SsrCols == 1
DeadZonePx == 1
WalkTimeoutMs == 100
NavThreshold == 50
RatioThreshold == 30

VARIABLES
    now,          \* the clock, ms
    hash,         \* window.location.hash
    dom,          \* ids of the elements document.getElementById finds
    pageMounted,  \* the page whose effect invokes handleHashNavigation is mounted
    timers,       \* pending setTimeout callbacks of attemptScroll
    nextTimerId,  \* setTimeout's next handle
    invs,         \* one record per invocation of handleHashNavigation
    hasWindow,    \* typeof window !== "undefined"
    innerWidth,   \* window.innerWidth
    nQuestions,   \* faqData.length
    faqMounted,   \* the Faq component is mounted (its resize listener attached)
    cols,         \* Faq state: cols
    columns,      \* Faq memo: columns
    prevCols,     \* history: cols before the last Faq event
    lastEvent,    \* history: the last Faq event
    animationDirection, \* SectionWrapper prop
    secProgress,  \* scrollYProgress of the sections, hundredths
    blendStyle,   \* SectionWrapper: opacities of the two gradient blends
    wrapperStyle, \* SectionWrapper: style of the content block
    eliteStyle,   \* Elite: style of the content block
    faqStyle,     \* Faq: style of the content block
    hookValues,   \* useScrollSection: the returned transforms
    scrollY,      \* window.scrollY
    innerHeight,  \* window.innerHeight
    docHeight,    \* height of the document's content
    footerSize,   \* height of the footer element
    hasFooter,    \* document.querySelector("footer") finds an element
    listeners,    \* the window's event listeners, <<event, owner>>
    charMounted,  \* ScrollProgressCharacter is mounted
    char,         \* ScrollProgressCharacter: state, refs and pending timers
    charStep,     \* history: the last step of the character and its scrollDelta
    navMounted,   \* a component using useNavbarScroll is mounted
    nav,          \* useNavbarScroll: isScrolled, isAtHero
    navStep,      \* history: the last step of useNavbarScroll
    navSeen,      \* history: scrollY and innerHeight at the hook's last handleScroll
    activeMounted, \* a component using useActiveSection is mounted
    activeSection, \* useActiveSection: activeSection
    observers,    \* ids of the elements observed by a live IntersectionObserver
    ratios,       \* the intersection ratio of each observed element, hundredths
    activeStep,   \* history: the last step of useActiveSection
    spring,       \* useSpring: position, velocity, target and whether it rests
    eliteMounted, \* the Elite component is mounted
    activeTab,    \* Elite state: activeTab
    lastClicked   \* history: the id of the tab clicked last, 0 before any click

hashVars == <<now, hash, dom, pageMounted, timers, nextTimerId, invs>>
faqVars == <<hasWindow, innerWidth, nQuestions, faqMounted, cols, columns,
            prevCols, lastEvent>>
sectionVars == <<animationDirection, secProgress, blendStyle, wrapperStyle,
                 eliteStyle, faqStyle, hookValues>>
charVars == <<scrollY, innerHeight, docHeight, footerSize, hasFooter, listeners,
              charMounted, char, charStep>>
navVars == <<navMounted, nav, navStep, navSeen>>
activeVars == <<activeMounted, activeSection, observers, ratios, activeStep>>
hookVars == <<navVars, activeVars>>
\* charVars without the listener table, which Faq and the navbar hook share
charOwnVars == <<scrollY, innerHeight, docHeight, footerSize, hasFooter,
                 charMounted, char, charStep>>
springVars == <<spring>>
eliteVars == <<eliteMounted, activeTab, lastClicked>>
widgetVars == <<springVars, eliteVars>>
notHashVars == <<faqVars, sectionVars, charVars, hookVars, widgetVars>>
notFaqVars == <<hashVars, sectionVars, charOwnVars, hookVars, widgetVars>>
notSectionVars == <<hashVars, faqVars, charVars, hookVars, widgetVars>>
notCharVars == <<hashVars, faqVars, sectionVars, hookVars, widgetVars>>
notNavVars == <<hashVars, faqVars, sectionVars, charOwnVars, activeVars, widgetVars>>
notActiveVars == <<hashVars, faqVars, sectionVars, charVars, navVars, widgetVars>>
notSpringVars == <<hashVars, faqVars, sectionVars, charVars, hookVars, eliteVars>>
notEliteVars == <<hashVars, faqVars, sectionVars, charVars, hookVars, springVars>>
vars == <<hashVars, faqVars, sectionVars, charVars, hookVars, widgetVars>>

(***************************************************************************)
(* Hash Navigator                                                          *)
(***************************************************************************)
HashFaq == <<"#", "f", "a", "q">>
HashMissing == <<"#", "m", "i", "s", "s", "i", "n", "g">>
Hashes == {<< >>, HashFaq, HashMissing}

\* ids of the sections a page can mount
SectionIds == {<<"f", "a", "q">>}

\* hash.substring(1)
Substring1(s) == SubSeq(s, 2, Len(s))

\* JavaScript truthiness of a string
Truthy(s) == Len(s) > 0

\* document.getElementById(id): the element is found iff it is in the DOM
getElementById(id) == id \in dom

\* the delay of the retry scheduled by attemptScroll(attempts)
RetryDelayLinear(attempts) == RetryInterval * (attempts + 1)
RetryDelayExponential(attempts) == RetryInterval * (2 ^ attempts)
RetryDelay(attempts) == RetryInterval

\* the condition under which attemptScroll(attempts) schedules a retry
MayRetryOffByOne(attempts) == attempts <= MaxRetries
MayRetry(attempts) == attempts < MaxRetries

\* the delay of the first attemptScroll()
FirstDelayHalved == InitialDelay \div 2
FirstDelay == InitialDelay

\* the guard of handleHashNavigation
HashGuardAlways(h) == TRUE
HashGuard(h) == Truthy(h)

TimersOf(i) == {t \in timers : t.inv = i}

\* the timer the event loop runs next: earliest due time, then earliest handle
NextTimer(t) ==
    /\ t \in timers
    /\ \A u \in timers : u.due > t.due \/ (u.due = t.due /\ u.id >= t.id)

HashInit ==
    /\ now = 0
    /\ hash \in Hashes
    /\ dom = {}
    /\ pageMounted = TRUE
    /\ timers = {}
    /\ nextTimerId = 1
    /\ invs = << >>

\* the router changes the URL fragment
SetHash(h) ==
    /\ h # hash
    /\ hash' = h
    /\ UNCHANGED <<now, dom, pageMounted, timers, nextTimerId, invs>>
    /\ UNCHANGED notHashVars

\* a section of the page is mounted into / removed from the DOM
ElementMount(id) ==
    /\ id \notin dom
    /\ dom' = dom \cup {id}
    /\ UNCHANGED <<now, hash, pageMounted, timers, nextTimerId, invs>>
    /\ UNCHANGED notHashVars

ElementUnmount(id) ==
    /\ id \in dom
    /\ dom' = dom \ {id}
    /\ UNCHANGED <<now, hash, pageMounted, timers, nextTimerId, invs>>
    /\ UNCHANGED notHashVars

\* the page that invoked the navigator unmounts: its sections leave the DOM;
\* handleHashNavigation keeps no timer handle and has no cleanup
PageUnmount ==
    /\ pageMounted
    /\ pageMounted' = FALSE
    /\ dom' = {}
    /\ UNCHANGED <<now, hash, timers, nextTimerId, invs>>
    /\ UNCHANGED notHashVars

\* handleHashNavigation(), while fewer than limit invocations have been made
handleHashNavigationUpTo(limit) ==
    /\ pageMounted
    /\ Len(invs) < limit
    /\ invs' = Append(invs, [hash |-> hash, sectionId |-> Substring1(hash),
                             t0 |-> now, log |-> << >>, scrolls |-> << >>])
    /\ IF HashGuard(hash)
       THEN /\ timers' = timers \cup {[inv |-> Len(invs) + 1, attempts |-> 0,
                                       due |-> now + FirstDelay,
                                       setAt |-> now, id |-> nextTimerId]}
            /\ nextTimerId' = nextTimerId + 1
       ELSE UNCHANGED <<timers, nextTimerId>>
    /\ UNCHANGED <<now, hash, dom, pageMounted>>
    /\ UNCHANGED notHashVars

handleHashNavigation == handleHashNavigationUpTo(MaxInvocations)

\* the id invocation i looks up: the sectionId its closure captured
TargetOfCurrentHash(i) == Substring1(hash)
TargetOf(i) == invs[i].sectionId

\* a due timer runs attemptScroll(t.attempts)
attemptScroll(t) ==
    /\ NextTimer(t)
    /\ t.due <= now
    /\ LET i == t.inv
           element == getElementById(TargetOf(i))
           entry == [t |-> now, attempts |-> t.attempts, found |-> element,
                     mounted |-> pageMounted]
       IN /\ invs' = [invs EXCEPT
                 ![i].log = Append(@, entry),
                 ![i].scrolls = IF element THEN Append(@, now) ELSE @]
          /\ IF (~element) /\ MayRetry(t.attempts)
             THEN /\ timers' = (timers \ {t}) \cup
                        {[inv |-> i, attempts |-> t.attempts + 1,
                          due |-> now + RetryDelay(t.attempts),
                          setAt |-> now, id |-> nextTimerId]}
                  /\ nextTimerId' = nextTimerId + 1
             ELSE /\ timers' = timers \ {t}
                  /\ UNCHANGED nextTimerId
    /\ UNCHANGED <<now, hash, dom, pageMounted>>
    /\ UNCHANGED notHashVars

\* time passes until the next timer is due
Tick ==
    /\ timers # {}
    /\ \A t \in timers : t.due > now
    /\ \E t \in timers : NextTimer(t) /\ now' = t.due
    /\ UNCHANGED <<hash, dom, pageMounted, timers, nextTimerId, invs>>
    /\ UNCHANGED notHashVars

NextHash ==
    \/ \E h \in Hashes : SetHash(h)
    \/ \E id \in SectionIds : ElementMount(id)
    \/ \E id \in SectionIds : ElementUnmount(id)
    \/ PageUnmount
    \/ handleHashNavigation
    \/ \E t \in timers : attemptScroll(t)
    \/ Tick

\* overlapping invocations: two fragments whose sections mount late
HashHero == <<"#", "h", "e", "r", "o">>
OverlapHashes == {HashFaq, HashHero}
OverlapIds == {Substring1(h) : h \in OverlapHashes}

OverlapInit ==
    /\ now = 0
    /\ hash \in OverlapHashes
    /\ dom = {}
    /\ pageMounted = TRUE
    /\ timers = {}
    /\ nextTimerId = 1
    /\ invs = << >>

handleHashNavigationAgain == handleHashNavigationUpTo(MaxOverlap)

NextOverlap ==
    \/ \E h \in OverlapHashes : SetHash(h)
    \/ \E id \in OverlapIds : ElementMount(id)
    \/ \E id \in OverlapIds : ElementUnmount(id)
    \/ handleHashNavigationAgain
    \/ \E t \in timers : attemptScroll(t)
    \/ Tick

(***************************************************************************)
(* FAQ masonry grid                                                        *)
(***************************************************************************)
\* the viewport widths the model resizes to
Widths == {0, 320, 639, 640, 641, 1023, 1024, 1025, 1440}

\* questions = faqData.map((item, i) => ({id: i, q, a})); q and a are the
\* texts of faqData[i], determined by i
questions == [i \in 1..nQuestions |-> [id |-> i - 1]]

\* useState initializer of cols
InitialCols(w) ==
    IF ~hasWindow THEN SsrCols
    ELSE IF w >= BreakpointLg THEN 3
    ELSE IF w >= BreakpointSm THEN 2
    ELSE 1

\* the value onResize passes to setCols
OnResizeColsStrict(w) ==
    IF w > BreakpointLg THEN 3
    ELSE IF w > BreakpointSm THEN 2
    ELSE 1
OnResizeCols(w) ==
    IF w >= BreakpointLg THEN 3
    ELSE IF w >= BreakpointSm THEN 2
    ELSE 1

\* the bucket of the item at index idx: arr[idx % cols]
ColumnIndexShifted(idx, c) == (idx + 1) % c
ColumnIndexPaired(idx, c) == (idx \div 2) % c
ColumnIndex(idx, c) == idx % c

\* questions.forEach((item, idx) => arr[idx % cols].push({...item, index: idx}))
\* from index idx on; arr is 1-based here, arr[k + 1] is the code's arr[k]
RECURSIVE ForEachPush(_, _, _, _)
ForEachPush(qs, c, idx, arr) ==
    IF idx >= Len(qs) THEN arr
    ELSE ForEachPush(qs, c, idx + 1,
            [arr EXCEPT ![ColumnIndex(idx, c) + 1] =
                Append(@, [id |-> qs[idx + 1].id, index |-> idx])])

\* Array.from({length: cols}, () => []) followed by the forEach
Distribute(qs, c) == ForEachPush(qs, c, 0, [k \in 1..c |-> << >>])

\* useMemo(..., [cols]): recomputed when the dependency changed
useMemoStale(depChanged, prev, fresh) == prev
useMemo(depChanged, prev, fresh) == IF depChanged THEN fresh ELSE prev

FaqInit ==
    /\ hasWindow \in BOOLEAN
    /\ innerWidth \in (IF hasWindow THEN Widths ELSE {0})
    /\ nQuestions \in 0..MaxQuestions
    /\ faqMounted = FALSE
    /\ cols = 0
    /\ columns = << >>
    /\ prevCols = 0
    /\ lastEvent = "none"

\* the listener the Faq effect attaches, and what its cleanup leaves attached
FaqListeners == {<<"resize", "Faq">>}
FaqCleanup(attached) == attached \ FaqListeners

\* Faq renders for the first time: the cols initializer runs, the memo is
\* computed and (in a browser, where effects run) the effect attaches the
\* resize listener
FaqMount ==
    /\ ~faqMounted
    /\ faqMounted' = TRUE
    /\ listeners' = IF hasWindow THEN listeners \cup FaqListeners ELSE listeners
    /\ cols' = InitialCols(innerWidth)
    /\ columns' = Distribute(questions, cols')
    /\ prevCols' = cols
    /\ lastEvent' = "mount"
    /\ UNCHANGED <<hasWindow, innerWidth, nQuestions>>
    /\ UNCHANGED notFaqVars

\* the effect's cleanup removes the listener; the component's state is gone
FaqUnmount ==
    /\ faqMounted
    /\ faqMounted' = FALSE
    /\ listeners' = FaqCleanup(listeners)
    /\ cols' = 0
    /\ columns' = << >>
    /\ prevCols' = cols
    /\ lastEvent' = "unmount"
    /\ UNCHANGED <<hasWindow, innerWidth, nQuestions>>
    /\ UNCHANGED notFaqVars

\* the window is resized to width w; onResize runs if the listener is attached,
\* and the re-render re-evaluates the memo
Resize(w) ==
    /\ hasWindow
    /\ w # innerWidth
    /\ innerWidth' = w
    /\ IF FaqListeners \subseteq listeners
       THEN /\ cols' = OnResizeCols(w)
            /\ columns' = useMemo(cols' # cols, columns, Distribute(questions, cols'))
            /\ prevCols' = cols
            /\ lastEvent' = "resize"
       ELSE UNCHANGED <<cols, columns, prevCols, lastEvent>>
    /\ UNCHANGED <<hasWindow, nQuestions, faqMounted, listeners>>
    /\ UNCHANGED notFaqVars

NextFaq ==
    \/ FaqMount
    \/ FaqUnmount
    \/ \E w \in Widths : Resize(w)

(***************************************************************************)
(* Section Composer: scroll-linked transforms                              *)
(* Progress and breakpoints are in hundredths (0..100 for 0..1); curve     *)
(* values are in hundredths of their unit (100 is opacity 1, 8000 is 80px) *)
(* and an interpolated value is an exact fraction num / den of them.       *)
(***************************************************************************)
RECURSIVE Gcd(_, _)
Gcd(a, b) == IF b = 0 THEN a ELSE Gcd(b, a % b)

Abs(x) == IF x < 0 THEN -x ELSE x

\* the fraction n / d (d > 0) in lowest terms
Frac(n, d) ==
    LET g == Gcd(Abs(n), d)
    IN [num |-> n \div g, den |-> d \div g]

Whole(v) == [num |-> v, den |-> 1]

\* the segment of the curve that p falls into: the first k with p < input[k + 1]
RECURSIVE Segment(_, _, _)
Segment(input, p, k) ==
    IF k >= Len(input) - 1 \/ p < input[k + 1] THEN k
    ELSE Segment(input, p, k + 1)

\* useTransform(progress, input, output) at progress p: piecewise linear,
\* clamped to the first / last output outside the input range
TransformUnclamped(curve, p) ==
    LET k == Segment(curve.input, p, 1)
        b0 == curve.input[k]
        b1 == curve.input[k + 1]
        v0 == curve.output[k]
        v1 == curve.output[k + 1]
    IN Frac(v0 * (b1 - b0) + (v1 - v0) * (p - b0), b1 - b0)
TransformExtrapolated(curve, p) == TransformUnclamped(curve, p)
Transform(curve, p) ==
    LET n == Len(curve.input)
    IN IF p <= curve.input[1] THEN Whole(curve.output[1])
       ELSE IF p >= curve.input[n] THEN Whole(curve.output[n])
       ELSE TransformUnclamped(curve, p)

\* SectionWrapper's curves
BlendTopCurveLate == [input |-> <<0, 20>>, output |-> <<100, 0>>]
BlendTopCurve == [input |-> <<0, 15>>, output |-> <<100, 0>>]
BlendBottomCurve == [input |-> <<85, 100>>, output |-> <<0, 100>>]
ContentOpacityCurve == [input |-> <<0, 20, 80, 100>>, output |-> <<0, 100, 100, 0>>]
ContentScaleCurve == [input |-> <<0, 20, 80, 100>>, output |-> <<95, 100, 100, 98>>]
ContentYCurve(dir) ==
    [input |-> <<0, 25, 75, 100>>,
     output |-> IF dir = "up" THEN <<8000, 0, 0, -8000>>
                ELSE IF dir = "down" THEN <<-8000, 0, 0, 8000>>
                ELSE <<0, 0, 0, 0>>]
ContentXCurveAnyAxis(dir) ==
    [input |-> <<0, 25, 75, 100>>,
     output |-> IF dir \in {"left", "up"} THEN <<8000, 0, 0, -8000>>
                ELSE IF dir \in {"right", "down"} THEN <<-8000, 0, 0, 8000>>
                ELSE <<0, 0, 0, 0>>]
ContentXCurve(dir) ==
    [input |-> <<0, 25, 75, 100>>,
     output |-> IF dir = "left" THEN <<8000, 0, 0, -8000>>
                ELSE IF dir = "right" THEN <<-8000, 0, 0, 8000>>
                ELSE <<0, 0, 0, 0>>]

\* the curves of Elite and Faq (the same three in both components)
EdgeOpacityCurve == [input |-> <<0, 15, 85, 100>>, output |-> <<0, 100, 100, 0>>]
EnterYCurve == [input |-> <<0, 20>>, output |-> <<6000, 0>>]
EnterScaleCurve == [input |-> <<0, 20>>, output |-> <<98, 100>>]

\* useScrollSection's curves
HookOpacityCurve == [input |-> <<0, 20, 80, 100>>, output |-> <<0, 100, 100, 0>>]
HookYCurve == [input |-> <<0, 30, 70, 100>>, output |-> <<10000, 0, 0, -10000>>]
HookScaleCurve == [input |-> <<0, 20, 80, 100>>, output |-> <<95, 100, 100, 95>>]
HookBlurCurve == [input |-> <<0, 20, 80, 100>>, output |-> <<1000, 0, 0, 1000>>]

\* the values animationDirection takes; "diagonal" stands for any other value
Directions == {"up", "down", "left", "right", "diagonal"}

\* the style objects the components pass to their motion.div elements
WrapperBlendStyle(p) ==
    [top |-> Transform(BlendTopCurve, p),
     bottom |-> Transform(BlendBottomCurve, p)]
WrapperContentStyle(dir, p) ==
    [opacity |-> Transform(ContentOpacityCurve, p),
     y |-> Transform(ContentYCurve(dir), p),
     x |-> Transform(ContentXCurve(dir), p),
     scale |-> Transform(ContentScaleCurve, p)]
EliteContentStyle(p) ==
    [y |-> Transform(EnterYCurve, p),
     scale |-> Transform(EnterScaleCurve, p)]
FaqContentStyle(p) ==
    [opacity |-> Transform(EdgeOpacityCurve, p),
     y |-> Transform(EnterYCurve, p),
     scale |-> Transform(EnterScaleCurve, p)]
HookValues(p) ==
    [opacity |-> Transform(HookOpacityCurve, p),
     y |-> Transform(HookYCurve, p),
     scale |-> Transform(HookScaleCurve, p),
     blur |-> Transform(HookBlurCurve, p)]

\* the opacity an element renders with: its style's, or the CSS default 1
AppliedOpacity(style) ==
    IF "opacity" \in DOMAIN style THEN style.opacity ELSE Whole(100)

SectionInit ==
    /\ animationDirection \in Directions
    /\ secProgress = 0
    /\ blendStyle = WrapperBlendStyle(0)
    /\ wrapperStyle = WrapperContentStyle(animationDirection, 0)
    /\ eliteStyle = EliteContentStyle(0)
    /\ faqStyle = FaqContentStyle(0)
    /\ hookValues = HookValues(0)

\* scrolling moves the sections' scrollYProgress to p: every transform follows
SectionScroll(p) ==
    /\ p # secProgress
    /\ secProgress' = p
    /\ blendStyle' = WrapperBlendStyle(p)
    /\ wrapperStyle' = WrapperContentStyle(animationDirection, p)
    /\ eliteStyle' = EliteContentStyle(p)
    /\ faqStyle' = FaqContentStyle(p)
    /\ hookValues' = HookValues(p)
    /\ UNCHANGED animationDirection
    /\ UNCHANGED notSectionVars

NextSection == \E p \in 0..100 : SectionScroll(p)

SectionIdle ==
    /\ animationDirection = "up"
    /\ secProgress = 0
    /\ blendStyle = WrapperBlendStyle(0)
    /\ wrapperStyle = WrapperContentStyle("up", 0)
    /\ eliteStyle = EliteContentStyle(0)
    /\ faqStyle = FaqContentStyle(0)
    /\ hookValues = HookValues(0)

(***************************************************************************)
(* Character Walker (ScrollProgressCharacter)                              *)
(* Lengths are in half pixels, so that a scroll of 0.5px is one unit.      *)
(* A JavaScript number is NaN, an infinity or an exact fraction.           *)
(***************************************************************************)
JsNaN == [kind |-> "nan", num |-> 0, den |-> 1]
JsInf(sign) == [kind |-> "inf", num |-> sign, den |-> 1]
JsNum(n, d) == [kind |-> "num", num |-> Frac(n, d).num, den |-> Frac(n, d).den]

\* a / b for integers a and b
JsDiv(a, b) ==
    IF b = 0 THEN (IF a = 0 THEN JsNaN ELSE JsInf(IF a > 0 THEN 1 ELSE -1))
    ELSE IF b > 0 THEN JsNum(a, b)
    ELSE JsNum(-a, -b)

\* x * k for an integer k > 0
JsTimes(x, k) == IF x.kind = "num" THEN JsNum(x.num * k, x.den) ELSE x

\* Math.max(x, k) and Math.min(x, k) for an integer k: NaN if x is NaN
MathMax(x, k) ==
    IF x.kind = "nan" THEN JsNaN
    ELSE IF x.kind = "inf" THEN (IF x.num > 0 THEN x ELSE JsNum(k, 1))
    ELSE IF x.num >= k * x.den THEN x ELSE JsNum(k, 1)
MathMin(x, k) ==
    IF x.kind = "nan" THEN JsNaN
    ELSE IF x.kind = "inf" THEN (IF x.num < 0 THEN x ELSE JsNum(k, 1))
    ELSE IF x.num <= k * x.den THEN x ELSE JsNum(k, 1)

Max(a, b) == IF a >= b THEN a ELSE b

\* the inputs of the model, in half pixels
ScrollPositions == {-20, 0, 1, 2, 3, 300, 600, 620}
ViewportHeights == {400, 600}
DocumentHeights == {400, 1000}
FooterSizes == {100}

\* px pixels in half pixels
Px(px) == 2 * px

\* document.documentElement.scrollHeight when window.innerHeight = h: never
\* less than the viewport
scrollHeight(h) == Max(docHeight, h)

\* footer.getBoundingClientRect().top: the footer ends the document
FooterTop(y, h) == scrollHeight(h) - footerSize - y

\* the component's state (useState), refs (useRef) and pending timers after
\* its first render
CharInitial ==
    [scrollProgress |-> JsNum(0, 1), isWalking |-> FALSE, direction |-> 1,
     footerHeight |-> 0, lastScrollY |-> 0, walkingTimeout |-> 0,
     pending |-> {}]

\* setTimeout's handle: one no pending timer and no ref holds
FreshHandle(c) ==
    CHOOSE n \in 1..(Cardinality(c.pending) + 2) :
        /\ n # c.walkingTimeout
        /\ \A t \in c.pending : t.id # n
        /\ \A m \in 1..(n - 1) : m = c.walkingTimeout \/ \E t \in c.pending : t.id = m

\* clearTimeout(handle)
clearTimeoutNoOp(pending, handle) == pending
clearTimeout(pending, handle) == {t \in pending : t.id # handle}

\* Math.min(Math.max((scrollY / maxScroll) * 100, 0), 100)
ProgressUnclamped(y, maxScroll) == JsTimes(JsDiv(y, maxScroll), 100)
Progress(y, maxScroll) == MathMin(MathMax(JsTimes(JsDiv(y, maxScroll), 100), 0), 100)

\* Math.abs(scrollDelta) > 1
ExceedsDeadZoneInclusive(delta) == Abs(delta) >= Px(DeadZonePx)
ExceedsDeadZone(delta) == Abs(delta) > Px(DeadZonePx)

\* scrollDelta > 0 ? 1 : -1
DirectionOfInverted(delta) == IF delta > 0 THEN -1 ELSE 1
DirectionOf(delta) == IF delta > 0 THEN 1 ELSE -1

\* Math.max(0, window.innerHeight - footerRect.top)
VisibleFooterHeightRaw(y, h) == h - FooterTop(y, h)
VisibleFooterHeight(y, h) == Max(0, h - FooterTop(y, h))

\* the delay of the walking timeout
WalkDelayDouble == 2 * WalkTimeoutMs
WalkDelay == WalkTimeoutMs

\* handleScroll() on state c with window.scrollY = y and window.innerHeight = h
handleScrollLazyRef(c, y, h) ==
    LET progress == Progress(y, scrollHeight(h) - h)
        scrollDelta == y - c.lastScrollY
        walk == ExceedsDeadZone(scrollDelta)
        handle == FreshHandle(c)
    IN [scrollProgress |-> progress,
        isWalking |-> IF walk THEN TRUE ELSE c.isWalking,
        direction |-> IF walk THEN DirectionOf(scrollDelta) ELSE c.direction,
        footerHeight |-> IF hasFooter THEN VisibleFooterHeight(y, h) ELSE c.footerHeight,
        lastScrollY |-> IF walk THEN y ELSE c.lastScrollY,
        walkingTimeout |-> IF walk THEN handle ELSE c.walkingTimeout,
        pending |-> IF walk
                    THEN clearTimeout(c.pending, c.walkingTimeout)
                            \cup {[id |-> handle, remaining |-> WalkDelay]}
                    ELSE c.pending]
handleScroll(c, y, h) ==
    LET progress == Progress(y, scrollHeight(h) - h)
        scrollDelta == y - c.lastScrollY
        walk == ExceedsDeadZone(scrollDelta)
        handle == FreshHandle(c)
    IN [scrollProgress |-> progress,
        isWalking |-> IF walk THEN TRUE ELSE c.isWalking,
        direction |-> IF walk THEN DirectionOf(scrollDelta) ELSE c.direction,
        footerHeight |-> IF hasFooter THEN VisibleFooterHeight(y, h) ELSE c.footerHeight,
        lastScrollY |-> y,
        walkingTimeout |-> IF walk THEN handle ELSE c.walkingTimeout,
        pending |-> IF walk
                    THEN clearTimeout(c.pending, c.walkingTimeout)
                            \cup {[id |-> handle, remaining |-> WalkDelay]}
                    ELSE c.pending]

\* the listeners the effect attaches, and what its cleanup leaves attached
CharListeners == {<<"scroll", "Character">>, <<"resize", "Character">>}
CharCleanupScrollOnly(attached) == attached \ {<<"scroll", "Character">>}
CharCleanup(attached) == attached \ CharListeners

\* the component listens to the window's scroll and resize events
CharListening == CharListeners \subseteq listeners

CharInit ==
    /\ scrollY \in ScrollPositions
    /\ innerHeight \in ViewportHeights
    /\ docHeight \in DocumentHeights
    /\ footerSize \in FooterSizes
    /\ hasFooter \in BOOLEAN
    /\ listeners = {}
    /\ charMounted = FALSE
    /\ char = CharInitial
    /\ charStep = [kind |-> "none", delta |-> 0]

\* the component mounts: first render, then the effect attaches the two
\* listeners and calls handleScroll()
CharMount ==
    /\ ~charMounted
    /\ charMounted' = TRUE
    /\ listeners' = listeners \cup CharListeners
    /\ char' = handleScroll(CharInitial, scrollY, innerHeight)
    /\ charStep' = [kind |-> "mount", delta |-> scrollY - CharInitial.lastScrollY]
    /\ UNCHANGED <<scrollY, innerHeight, docHeight, footerSize, hasFooter>>
    /\ UNCHANGED notCharVars

\* the effect's cleanup: both listeners removed, the walking timeout cleared
CharUnmount ==
    /\ charMounted
    /\ charMounted' = FALSE
    /\ listeners' = CharCleanup(listeners)
    /\ char' = [char EXCEPT !.pending = clearTimeout(@, char.walkingTimeout)]
    /\ charStep' = [kind |-> "unmount", delta |-> 0]
    /\ UNCHANGED <<scrollY, innerHeight, docHeight, footerSize, hasFooter>>
    /\ UNCHANGED notCharVars

\* the window scrolls to y and dispatches a scroll event
CharScroll(y) ==
    /\ y # scrollY
    /\ scrollY' = y
    /\ IF <<"scroll", "Character">> \in listeners
       THEN /\ char' = handleScroll(char, y, innerHeight)
            /\ charStep' = [kind |-> "scroll", delta |-> y - char.lastScrollY]
       ELSE /\ UNCHANGED char
            /\ charStep' = [kind |-> "unheard", delta |-> 0]
    /\ UNCHANGED <<innerHeight, docHeight, footerSize, hasFooter, listeners, charMounted>>
    /\ UNCHANGED notCharVars

\* the window is resized to height h and dispatches a resize event
CharResize(h) ==
    /\ h # innerHeight
    /\ innerHeight' = h
    /\ UNCHANGED <<scrollY, docHeight, footerSize, hasFooter>>
    /\ IF <<"resize", "Character">> \in listeners
       THEN /\ char' = handleScroll(char, scrollY, h)
            /\ charStep' = [kind |-> "resize", delta |-> scrollY - char.lastScrollY]
       ELSE /\ UNCHANGED char
            /\ charStep' = [kind |-> "unheard", delta |-> 0]
    /\ UNCHANGED <<listeners, charMounted>>
    /\ UNCHANGED notCharVars

\* the page's footer is mounted / removed; no event is dispatched
FooterToggle ==
    /\ hasFooter' = ~hasFooter
    /\ charStep' = [kind |-> "footer", delta |-> 0]
    /\ UNCHANGED <<scrollY, innerHeight, docHeight, footerSize, listeners, charMounted, char>>
    /\ UNCHANGED notCharVars

\* time passes until the next walking timeout is due
CharTick ==
    /\ char.pending # {}
    /\ \A t \in char.pending : t.remaining > 0
    /\ LET d == CHOOSE r \in {t.remaining : t \in char.pending} :
                    \A t \in char.pending : r <= t.remaining
       IN char' = [char EXCEPT !.pending =
                      {[id |-> t.id, remaining |-> t.remaining - d] : t \in char.pending}]
    /\ charStep' = [kind |-> "tick", delta |-> 0]
    /\ UNCHANGED <<scrollY, innerHeight, docHeight, footerSize, hasFooter, listeners, charMounted>>
    /\ UNCHANGED notCharVars

\* a due walking timeout runs setIsWalking(false)
WalkTimeout ==
    /\ \E t \in char.pending :
          /\ t.remaining = 0
          /\ char' = [char EXCEPT !.isWalking = FALSE, !.pending = @ \ {t}]
    /\ charStep' = [kind |-> "timeout", delta |-> 0]
    /\ UNCHANGED <<scrollY, innerHeight, docHeight, footerSize, hasFooter, listeners, charMounted>>
    /\ UNCHANGED notCharVars

NextChar ==
    \/ CharMount
    \/ CharUnmount
    \/ \E y \in ScrollPositions : CharScroll(y)
    \/ \E h \in ViewportHeights : CharResize(h)
    \/ FooterToggle
    \/ CharTick
    \/ WalkTimeout

(***************************************************************************)
(* Navbar hooks: useNavbarScroll and useActiveSection                      *)
(***************************************************************************)
\* the section ids a navbar passes to useActiveSection, in order
ObservedIds == << <<"h", "e", "r", "o">>, <<"f", "a", "q">> >>
Range(f) == {f[i] : i \in DOMAIN f}

\* the entries an IntersectionObserver delivers; ratios in hundredths
Entries == {[isIntersecting |-> FALSE, intersectionRatio |-> 0],
            [isIntersecting |-> TRUE, intersectionRatio |-> 30],
            [isIntersecting |-> TRUE, intersectionRatio |-> 31],
            [isIntersecting |-> TRUE, intersectionRatio |-> 100]}

\* of these, the element fully out of view and fully in view
EdgeEntries == {e \in Entries : e.intersectionRatio \in {0, 100}}

\* useState(false), useState(true)
NavInitial == [isScrolled |-> FALSE, isAtHero |-> TRUE]

\* useNavbarScroll's handleScroll, with window.scrollY = y, innerHeight = h
NavHandleScrollInclusive(y, h) == [isScrolled |-> y >= NavThreshold, isAtHero |-> 2 * y < h]
NavHandleScroll(y, h) == [isScrolled |-> y > NavThreshold, isAtHero |-> 2 * y < h]

\* the listener the effect attaches, and what its cleanup leaves attached
NavListeners == {<<"scroll", "Navbar">>}
NavCleanup(attached) == attached \ NavListeners

\* useState(sectionIds[0] || null); null is the empty id
InitialActive(ids) == IF Len(ids) > 0 THEN ids[1] ELSE << >>

\* the elements the effect observes: one observer per id found in the DOM
Observed(ids) == {id \in Range(ids) : getElementById(id)}

\* the observer's callback for the element with this id
OnIntersect(current, id, entry) ==
    IF entry.isIntersecting /\ entry.intersectionRatio > RatioThreshold
    THEN id
    ELSE current

\* the cleanup disconnects every observer the effect created
ActiveCleanup(observed) == {}

\* no element is visible
NoRatios == [id \in Range(ObservedIds) |-> 0]

HooksInit ==
    /\ navMounted = FALSE
    /\ nav = NavInitial
    /\ navStep = "none"
    /\ navSeen = [scrollY |-> 0, innerHeight |-> 0]
    /\ activeMounted = FALSE
    /\ activeSection = InitialActive(ObservedIds)
    /\ observers = {}
    /\ ratios = NoRatios
    /\ activeStep = "none"

HooksIdle == HooksInit

\* a component using useNavbarScroll mounts: the effect attaches the scroll
\* listener and calls handleScroll()
NavMount ==
    /\ ~navMounted
    /\ navMounted' = TRUE
    /\ listeners' = listeners \cup NavListeners
    /\ nav' = NavHandleScroll(scrollY, innerHeight)
    /\ navStep' = "mount"
    /\ navSeen' = [scrollY |-> scrollY, innerHeight |-> innerHeight]
    /\ UNCHANGED notNavVars

\* the effect's cleanup removes the scroll listener
NavUnmount ==
    /\ navMounted
    /\ navMounted' = FALSE
    /\ listeners' = NavCleanup(listeners)
    /\ navStep' = "unmount"
    /\ UNCHANGED <<nav, navSeen>>
    /\ UNCHANGED notNavVars

\* a component using useActiveSection mounts: the effect creates an observer
\* for every section id whose element is in the DOM
ActiveMount ==
    /\ ~activeMounted
    /\ activeMounted' = TRUE
    /\ activeSection' = InitialActive(ObservedIds)
    /\ observers' = observers \cup Observed(ObservedIds)
    /\ ratios' = NoRatios
    /\ activeStep' = "mount"
    /\ UNCHANGED notActiveVars

\* the effect's cleanup disconnects the observers
ActiveUnmount ==
    /\ activeMounted
    /\ activeMounted' = FALSE
    /\ observers' = ActiveCleanup(observers)
    /\ ratios' = NoRatios
    /\ activeStep' = "unmount"
    /\ UNCHANGED activeSection
    /\ UNCHANGED notActiveVars

(***************************************************************************)
(* The window's events, dispatched to every attached listener              *)
(***************************************************************************)
ScrollTargets == {0, 300}
WindowSizes == {<<1024, 600>>, <<500, 400>>}

\* the window scrolls to y: the scroll listeners of the character and of the
\* navbar hook run if they are attached
ScrollEvent(y) ==
    /\ y # scrollY
    /\ scrollY' = y
    /\ IF <<"scroll", "Character">> \in listeners
       THEN /\ char' = handleScroll(char, y, innerHeight)
            /\ charStep' = [kind |-> "scroll", delta |-> y - char.lastScrollY]
       ELSE /\ UNCHANGED char
            /\ charStep' = [kind |-> "unheard", delta |-> 0]
    /\ IF <<"scroll", "Navbar">> \in listeners
       THEN /\ nav' = NavHandleScroll(y, innerHeight)
            /\ navStep' = "scroll"
            /\ navSeen' = [scrollY |-> y, innerHeight |-> innerHeight]
       ELSE /\ UNCHANGED <<nav, navSeen>>
            /\ navStep' = "unheard"
    /\ UNCHANGED <<innerHeight, docHeight, footerSize, hasFooter, listeners,
                   charMounted, navMounted>>
    /\ UNCHANGED <<hashVars, faqVars, sectionVars, activeVars, widgetVars>>

\* the window is resized to w x h: the resize listeners of Faq and of the
\* character run if they are attached
ResizeEvent(w, h) ==
    /\ hasWindow
    /\ <<w, h>> # <<innerWidth, innerHeight>>
    /\ innerWidth' = w
    /\ innerHeight' = h
    /\ IF <<"resize", "Faq">> \in listeners
       THEN /\ cols' = OnResizeCols(w)
            /\ columns' = useMemo(cols' # cols, columns, Distribute(questions, cols'))
            /\ prevCols' = cols
            /\ lastEvent' = "resize"
       ELSE /\ UNCHANGED <<cols, columns, prevCols>>
            /\ lastEvent' = "unheard"
    /\ IF <<"resize", "Character">> \in listeners
       THEN /\ char' = handleScroll(char, scrollY, h)
            /\ charStep' = [kind |-> "resize", delta |-> scrollY - char.lastScrollY]
       ELSE /\ UNCHANGED char
            /\ charStep' = [kind |-> "unheard", delta |-> 0]
    /\ UNCHANGED <<hasWindow, nQuestions, faqMounted, scrollY, docHeight,
                   footerSize, hasFooter, listeners, charMounted>>
    /\ UNCHANGED <<hashVars, sectionVars, hookVars, widgetVars>>

\* the visibility of the element with this id crosses a threshold: its
\* observer, if one is live, delivers the entry to the callback
IntersectionEvent(id, entry) ==
    /\ getElementById(id)
    /\ IF id \in observers
       THEN /\ activeSection' = OnIntersect(activeSection, id, entry)
            /\ ratios' = [ratios EXCEPT ![id] = entry.intersectionRatio]
            /\ activeStep' = "intersection"
       ELSE /\ UNCHANGED <<activeSection, ratios>>
            /\ activeStep' = "unheard"
    /\ UNCHANGED <<activeMounted, observers>>
    /\ UNCHANGED notActiveVars

\* the page before any of the four listener owners has mounted
ListenersInit ==
    /\ now = 0
    /\ hash = << >>
    /\ dom \in SUBSET Range(ObservedIds)
    /\ pageMounted = TRUE
    /\ timers = {}
    /\ nextTimerId = 1
    /\ invs = << >>
    /\ hasWindow = TRUE
    /\ innerWidth = 1024
    /\ nQuestions = MaxQuestions
    /\ faqMounted = FALSE
    /\ cols = 0
    /\ columns = << >>
    /\ prevCols = 0
    /\ lastEvent = "none"
    /\ scrollY = 0
    /\ innerHeight = 600
    /\ docHeight = 1000
    /\ footerSize = 100
    /\ hasFooter = TRUE
    /\ listeners = {}
    /\ charMounted = FALSE
    /\ char = CharInitial
    /\ charStep = [kind |-> "none", delta |-> 0]
    /\ HooksInit

\* the scroll positions around the navbar hook's two thresholds
NavScrollPositions == {0, NavThreshold, NavThreshold + 1, 199, 200, 299, 300}

\* the two navbar hooks alone, under the window's events
NextHooks ==
    \/ NavMount
    \/ NavUnmount
    \/ ActiveMount
    \/ ActiveUnmount
    \/ \E y \in NavScrollPositions : ScrollEvent(y)
    \/ \E s \in WindowSizes : ResizeEvent(s[1], s[2])
    \/ \E id \in Range(ObservedIds), entry \in Entries : IntersectionEvent(id, entry)

NextListeners ==
    \/ CharMount
    \/ CharUnmount
    \/ FaqMount
    \/ FaqUnmount
    \/ NavMount
    \/ NavUnmount
    \/ ActiveMount
    \/ ActiveUnmount
    \/ \E y \in ScrollTargets : ScrollEvent(y)
    \/ \E s \in WindowSizes : ResizeEvent(s[1], s[2])
    \/ \E id \in Range(ObservedIds), entry \in EdgeEntries : IntersectionEvent(id, entry)
    \/ CharTick
    \/ WalkTimeout

CharIdle ==
    /\ scrollY = 0
    /\ innerHeight = 400
    /\ docHeight = 400
    /\ footerSize = 100
    /\ hasFooter = FALSE
    /\ listeners = {}
    /\ charMounted = FALSE
    /\ char = CharInitial
    /\ charStep = [kind |-> "none", delta |-> 0]

HashIdle ==
    /\ now = 0
    /\ hash = << >>
    /\ dom = {}
    /\ pageMounted = TRUE
    /\ timers = {}
    /\ nextTimerId = 1
    /\ invs = << >>

FaqIdle ==
    /\ hasWindow = TRUE
    /\ innerWidth = 0
    /\ nQuestions = 0
    /\ faqMounted = FALSE
    /\ cols = 0
    /\ columns = << >>
    /\ prevCols = 0
    /\ lastEvent = "none"

(***************************************************************************)
(* Smoothing Filter: the damped spring behind useSpring                    *)
(* Positions are in millionths of the progress range (One is progress 1),  *)
(* velocities in millionths per second; an animation tick is 1/60 s.       *)
(***************************************************************************)
One == 1000 * 1000
TicksPerSecond == 60

\* the configuration passed to useSpring; restDelta in millionths
SpringConfigBouncy == [stiffness |-> 100, damping |-> 15, restDelta |-> One \div 1000]
SpringConfig == [stiffness |-> 100, damping |-> 30, restDelta |-> One \div 1000]

\* the targets scrollYProgress jumps between
SpringTargets == {0, One \div 2, One}

\* a spring record holds position, velocity, target, idle (it rests), and as
\* history the position it started from and the ticks since the target changed
\* one animation tick of the unit-mass spring:
\*   acceleration = k (target - position) - c velocity
\*   velocity += acceleration dt;  position += velocity dt
\* the spring rests, at the target, once both the distance to the target and
\* the speed are below the rest threshold
SpringStep(cfg, s) ==
    LET acceleration == cfg.stiffness * (s.target - s.position) - cfg.damping * s.velocity
        velocity == s.velocity + acceleration \div TicksPerSecond
        position == s.position + velocity \div TicksPerSecond
        atRest == /\ Abs(s.target - position) < cfg.restDelta
                  /\ Abs(velocity) < cfg.restDelta
    IN IF atRest
       THEN [position |-> s.target, velocity |-> 0, target |-> s.target,
             idle |-> TRUE, start |-> s.start, ticks |-> s.ticks + 1]
       ELSE [position |-> position, velocity |-> velocity, target |-> s.target,
             idle |-> FALSE, start |-> s.start, ticks |-> s.ticks + 1]

SpringInit ==
    spring = [position |-> 0, velocity |-> 0, target |-> 0, idle |-> TRUE,
              start |-> 0, ticks |-> 0]

SpringIdle == SpringInit

\* scrollYProgress jumps to t while the spring rests: the animation starts
SpringSetTarget(t) ==
    /\ spring.idle
    /\ t # spring.target
    /\ spring' = [spring EXCEPT !.target = t, !.idle = FALSE,
                                 !.start = spring.position, !.ticks = 0]
    /\ UNCHANGED notSpringVars

\* an animation frame while the spring is moving
SpringTick ==
    /\ ~spring.idle
    /\ spring' = SpringStep(SpringConfig, spring)
    /\ UNCHANGED notSpringVars

NextSpring ==
    \/ \E t \in SpringTargets : SpringSetTarget(t)
    \/ SpringTick

(***************************************************************************)
(* Elite: the tab panel of the featured events                             *)
(***************************************************************************)
\* constants/faqData.js: events (id and isElite of each)
Events == << [id |-> 1, isElite |-> TRUE], [id |-> 2, isElite |-> TRUE],
             [id |-> 3, isElite |-> TRUE], [id |-> 4, isElite |-> TRUE] >>

\* events.filter(event => event.isElite)
RECURSIVE Filter(_)
Filter(evs) ==
    IF evs = << >> THEN << >>
    ELSE IF Head(evs).isElite THEN <<Head(evs)>> \o Filter(Tail(evs))
    ELSE Filter(Tail(evs))
eliteEvents == Filter(Events)

\* null, and the falsy id 0
NullTab == 0

\* eliteEvents[0]?.id || null
InitialTabByIndex == IF Len(eliteEvents) > 0 THEN 0 ELSE NullTab
InitialTab == IF Len(eliteEvents) > 0 THEN eliteEvents[1].id ELSE NullTab

\* eliteEvents.find(event => event.id === activeTab): the matching events
\* in order; find returns the first, or undefined if there is none
Matching(tab) == {i \in DOMAIN eliteEvents : eliteEvents[i].id = tab}

EliteInit ==
    /\ eliteMounted = FALSE
    /\ activeTab = NullTab
    /\ lastClicked = 0

EliteIdle == EliteInit

\* Elite renders for the first time
EliteMount ==
    /\ ~eliteMounted
    /\ eliteMounted' = TRUE
    /\ activeTab' = InitialTab
    /\ lastClicked' = 0
    /\ UNCHANGED notEliteVars

EliteUnmount ==
    /\ eliteMounted
    /\ eliteMounted' = FALSE
    /\ activeTab' = NullTab
    /\ lastClicked' = 0
    /\ UNCHANGED notEliteVars

\* the user clicks the i-th tab button: setActiveTab(event.id)
ClickTab(i) ==
    /\ eliteMounted
    /\ activeTab' = eliteEvents[i].id
    /\ lastClicked' = eliteEvents[i].id
    /\ UNCHANGED eliteMounted
    /\ UNCHANGED notEliteVars

\* Elite's own steps, and the scrolling that drives its transforms
NextElite ==
    \/ EliteMount
    \/ EliteUnmount
    \/ \E i \in DOMAIN eliteEvents : ClickTab(i)
    \/ \E p \in {0, 10, 20, 50, 100} : SectionScroll(p)

(***************************************************************************)
(* Specifications                                                          *)
(***************************************************************************)
WidgetsIdle == SpringIdle /\ EliteIdle
InitHash == HashInit /\ FaqIdle /\ SectionIdle /\ CharIdle /\ HooksIdle /\ WidgetsIdle
InitFaq == FaqInit /\ HashIdle /\ SectionIdle /\ CharIdle /\ HooksIdle /\ WidgetsIdle
InitSection == SectionInit /\ HashIdle /\ FaqIdle /\ CharIdle /\ HooksIdle /\ WidgetsIdle
InitChar == CharInit /\ HashIdle /\ FaqIdle /\ SectionIdle /\ HooksIdle /\ WidgetsIdle
InitListeners == ListenersInit /\ SectionIdle /\ WidgetsIdle
InitSpring == SpringInit /\ HashIdle /\ FaqIdle /\ SectionIdle /\ CharIdle /\ HooksIdle /\ EliteIdle
InitElite == EliteInit /\ SectionInit /\ HashIdle /\ FaqIdle /\ CharIdle /\ HooksIdle /\ SpringIdle

SpecHash == InitHash /\ [][NextHash]_vars
SpecFaq == InitFaq /\ [][NextFaq]_vars
SpecSection == InitSection /\ [][NextSection]_vars
SpecChar == InitChar /\ [][NextChar]_vars
SpecCharLive == SpecChar /\ WF_vars(CharTick) /\ WF_vars(WalkTimeout)
SpecListeners == InitListeners /\ [][NextListeners]_vars
InitOverlap == OverlapInit /\ FaqIdle /\ SectionIdle /\ CharIdle /\ HooksIdle /\ WidgetsIdle
SpecOverlap == InitOverlap /\ [][NextOverlap]_vars
InitHooks == ListenersInit /\ SectionIdle /\ WidgetsIdle
SpecHooks == InitHooks /\ [][NextHooks]_vars
SpecSpring == InitSpring /\ [][NextSpring]_vars
SpecSpringLive == SpecSpring /\ WF_vars(SpringTick)
SpecElite == InitElite /\ [][NextElite]_vars

Init == HashInit /\ FaqInit /\ SectionInit /\ CharInit /\ HooksInit /\ SpringInit /\ EliteInit
Next == NextHash \/ NextOverlap \/ NextFaq \/ NextSection \/ NextChar \/ NextListeners \/ NextHooks
            \/ NextSpring \/ NextElite
Spec == Init /\ [][Next]_vars

(***************************************************************************)
(* Properties of the Hash Navigator                                        *)
(***************************************************************************)
Invocations == DOMAIN invs
NeverFound(i) == \A k \in DOMAIN invs[i].log : ~invs[i].log[k].found
Gap(i, k) == invs[i].log[k].t - invs[i].log[k - 1].t

\* C1: an invocation with a non-empty fragment whose element is found by no
\* lookup performs the initial lookup (attempts = 0) and then exactly 10
\* retries (attempts = 1..10): a timer stays pending until the 11th lookup
\* has run and none is pending after it, and scrollIntoView is never called.
C1_ExactlyTenRetries ==
    \A i \in Invocations :
        (Truthy(invs[i].hash) /\ NeverFound(i)) =>
            /\ Len(invs[i].log) <= 11
            /\ \A k \in DOMAIN invs[i].log : invs[i].log[k].attempts = k - 1
            /\ (TimersOf(i) = {}) <=> (Len(invs[i].log) = 11)
            /\ Cardinality(TimersOf(i)) <= 1
            /\ invs[i].scrolls = << >>

C1_Witness ==
    \E i \in Invocations :
        /\ invs[i].hash = HashMissing
        /\ NeverFound(i)
        /\ Len(invs[i].log) = 11
        /\ TimersOf(i) = {}

\* C2: if the element is absent at the first j lookups (0 <= j <= 10) and
\* present at lookup j + 1, scrollIntoView is called exactly once, at time
\* t0 + 100 + j * 100, and no lookup is pending or performed afterwards.
C2_ScrollOnceAtFirstFind ==
    \A i \in Invocations :
        /\ \A k \in DOMAIN invs[i].log :
              /\ invs[i].log[k].t = invs[i].t0 + 100 + (k - 1) * 100
              /\ invs[i].log[k].found =>
                    /\ k = Len(invs[i].log)
                    /\ k - 1 \in 0..10
                    /\ invs[i].scrolls = <<invs[i].t0 + 100 + (k - 1) * 100>>
                    /\ TimersOf(i) = {}
        /\ invs[i].scrolls # << >> =>
              /\ invs[i].log # << >>
              /\ invs[i].log[Len(invs[i].log)].found

C2_Witness ==
    \E i \in Invocations :
        /\ Len(invs[i].log) = 11
        /\ invs[i].log[11].found
        /\ invs[i].scrolls = <<invs[i].t0 + 1100>>

\* C3: after the page that invoked the navigator has unmounted, no attempt
\* of that invocation performs a lookup (or a scrollIntoView call).
C3_NoLookupAfterUnmount ==
    \A i \in Invocations :
        \A k \in DOMAIN invs[i].log : invs[i].log[k].mounted

\* C4: the delay between a failed lookup and the next lookup is 100 ms for
\* every attempt number 0..9, both as scheduled and as run.
C4_FixedInterval ==
    /\ \A t \in timers : t.attempts >= 1 => t.due - t.setAt = 100
    /\ \A i \in Invocations :
          \A k \in DOMAIN invs[i].log : k >= 2 => Gap(i, k) = 100

C4_Witness ==
    \E i \in Invocations :
        /\ Len(invs[i].log) = 11
        /\ \A a \in 0..9 : \E k \in DOMAIN invs[i].log :
              invs[i].log[k].attempts = a /\ ~invs[i].log[k].found

C6_AtMostTenAttempts ==
    \A i \in Invocations :
        /\ Len(invs[i].log) <= 10
        /\ \A k \in DOMAIN invs[i].log : invs[i].log[k].t <= invs[i].t0 + 1000

\* C7: an invocation made while the fragment is empty schedules no timer,
\* performs no lookup and no scroll, whatever happens afterwards.
C7_EmptyHashNoOp ==
    \A i \in Invocations :
        invs[i].hash = << >> =>
            /\ TimersOf(i) = {}
            /\ invs[i].log = << >>
            /\ invs[i].scrolls = << >>

C7_Witness ==
    \E i \in Invocations :
        /\ invs[i].hash = << >>
        /\ hash = HashFaq
        /\ \E id \in SectionIds : id \in dom

\* the lookups invocation i has made
Lookups(i) == Len(invs[i].log)

\* this step appends a lookup to the log of invocation i
LooksUp(i) == i \in DOMAIN invs /\ Len(invs'[i].log) = Len(invs[i].log) + 1

\* C29: every invocation looks up the fragment it captured when it was
\* invoked, whatever the hash is by then, with its own attempt counter; no
\* other invocation and no hash change cancels its loop, which has exactly
\* one timer pending until it has found its element or used its retries;
\* each invocation scrolls at most once.
C29_IndependentLoops ==
    /\ [][\A i \in DOMAIN invs :
            /\ invs'[i].hash = invs[i].hash
            /\ invs'[i].sectionId = Substring1(invs[i].hash)
            /\ LooksUp(i) =>
                  /\ invs'[i].log[Lookups(i) + 1].found = (Substring1(invs[i].hash) \in dom)
                  /\ invs'[i].log[Lookups(i) + 1].attempts = Lookups(i)
                  /\ \A j \in DOMAIN invs : j # i => invs'[j] = invs[j]
                  /\ \A j \in DOMAIN invs : j # i => TimersOf(j)' = TimersOf(j)]_vars
    /\ [](\A i \in DOMAIN invs :
            Truthy(invs[i].hash) =>
                /\ Cardinality(TimersOf(i)) <= 1
                /\ (TimersOf(i) = {}) <=>
                      /\ Lookups(i) > 0
                      /\ \/ invs[i].log[Lookups(i)].found
                         \/ invs[i].log[Lookups(i)].attempts = MaxRetries)
    /\ [](\A i \in DOMAIN invs : Len(invs[i].scrolls) <= 1)

\* two overlapping invocations, the first for #faq and the second for #hero:
\* both retried, and the first one's section was scrolled to after the
\* second one's
C29_Witness ==
    /\ Len(invs) = 2
    /\ invs[1].hash = HashFaq
    /\ invs[2].hash = HashHero
    /\ Lookups(1) > 2
    /\ Lookups(2) > 1
    /\ invs[2].t0 < invs[1].log[Lookups(1)].t
    /\ Len(invs[1].scrolls) = 1
    /\ Len(invs[2].scrolls) = 1
    /\ invs[1].scrolls[1] > invs[2].scrolls[1]

(***************************************************************************)
(* Properties of the FAQ masonry grid                                      *)
(***************************************************************************)
\* the original indices of the items of column c (1-based c), in order
Indices(c) == [p \in DOMAIN columns[c] |-> columns[c][p].index]

\* the places (column, position) at which question id q is rendered
PlacesOf(q) ==
    {cp \in UNION {{<<c, p>> : p \in DOMAIN columns[c]} : c \in DOMAIN columns} :
        columns[cp[1]][cp[2]].id = q}

\* the column count the breakpoints prescribe for width w
ColsForWidth(w) == IF w >= 1024 THEN 3 ELSE IF w >= 640 THEN 2 ELSE 1

\* C8: the item at original index i is in column i mod cols, and within a
\* column the items appear in increasing original index; for cols = 3 and
\* items 0..9 the columns are [0,3,6,9], [1,4,7], [2,5,8].
C8_RoundRobin ==
    faqMounted =>
        /\ cols \in {1, 2, 3}
        /\ \A i \in 0..(nQuestions - 1) :
              /\ (i \div cols) + 1 \in DOMAIN columns[(i % cols) + 1]
              /\ columns[(i % cols) + 1][(i \div cols) + 1] = [id |-> i, index |-> i]
        /\ \A c \in DOMAIN columns :
              \A p1, p2 \in DOMAIN columns[c] :
                  p1 < p2 => columns[c][p1].index < columns[c][p2].index
        /\ (nQuestions = 10 /\ cols = 3) =>
              /\ Indices(1) = <<0, 3, 6, 9>>
              /\ Indices(2) = <<1, 4, 7>>
              /\ Indices(3) = <<2, 5, 8>>

C8_Witness ==
    /\ faqMounted
    /\ nQuestions = 10
    /\ cols = 3
    /\ Len(columns) = 3
    /\ Len(columns[1]) = 4

\* C9: after any sequence of resize events the columns are a partition of
\* the question list: exactly cols columns, every question in exactly one
\* place, and nothing but the questions.
C9_Partition ==
    faqMounted =>
        /\ Len(columns) = cols
        /\ \A q \in 0..(nQuestions - 1) : Cardinality(PlacesOf(q)) = 1
        /\ \A c \in DOMAIN columns : \A p \in DOMAIN columns[c] :
              columns[c][p].id \in 0..(nQuestions - 1)

C9_Witness ==
    /\ faqMounted
    /\ lastEvent = "resize"
    /\ prevCols = 3
    /\ cols = 2
    /\ nQuestions = 12

\* C10: while Faq is mounted in a browser, cols is the breakpoint function
\* of the latest viewport width, with inclusive boundaries, whether it was
\* set by the initializer on mount or by the resize handler.
C10_ColsOfWidth ==
    (faqMounted /\ hasWindow) =>
        /\ cols = ColsForWidth(innerWidth)
        /\ innerWidth = 1024 => cols = 3
        /\ innerWidth = 640 => cols = 2
        /\ innerWidth = 1023 => cols = 2
        /\ innerWidth = 639 => cols = 1

C10_Witness ==
    /\ faqMounted
    /\ lastEvent = "resize"
    /\ innerWidth = 1024
    /\ prevCols = 2
    /\ cols = 3

\* C26: the distribution balances the columns: for every column count in
\* {1, 2, 3} and any number of items the lengths of two columns differ by at
\* most 1, and a column is never shorter than a column to its right.
C26_Balanced ==
    faqMounted =>
        /\ Len(columns) = cols
        /\ cols \in {1, 2, 3}
        /\ \A c1, c2 \in DOMAIN columns :
              /\ Len(columns[c1]) - Len(columns[c2]) \in {-1, 0, 1}
              /\ c1 < c2 => Len(columns[c1]) >= Len(columns[c2])

\* eleven questions in three columns: 4, 4 and 3
C26_Witness ==
    /\ faqMounted
    /\ nQuestions = 11
    /\ cols = 3
    /\ <<Len(columns[1]), Len(columns[2]), Len(columns[3])>> = <<4, 4, 3>>

(***************************************************************************)
(* Properties of the Section Composer                                      *)
(***************************************************************************)
\* the fraction f equals v hundredths
IsValue(f, v) == f.num = v * f.den

\* C18: in the Settled state, progress in [0.2, 0.8], the content of a
\* SectionWrapper has opacity 1, offset 0 on both axes and scale 1, for
\* every animationDirection.
C18_SettledStatic ==
    secProgress \in 20..80 =>
        /\ IsValue(wrapperStyle.opacity, 100)
        /\ IsValue(wrapperStyle.x, 0)
        /\ IsValue(wrapperStyle.y, 0)
        /\ IsValue(wrapperStyle.scale, 100)

\* C19: in every scroll-animated section the opacity applied to the content
\* block is 0 at progress 0 and at progress 1.
C19_HiddenAtEdges ==
    secProgress \in {0, 100} =>
        /\ IsValue(AppliedOpacity(wrapperStyle), 0)
        /\ IsValue(AppliedOpacity(eliteStyle), 0)
        /\ IsValue(AppliedOpacity(faqStyle), 0)
        /\ IsValue(hookValues.opacity, 0)

\* C20: the top blend opacity is 1 at progress 0, falls linearly to 0 at
\* 0.15 and stays 0; the bottom blend opacity is 0 up to 0.85 and rises
\* linearly to 1 at progress 1; both are 0 for progress in [0.15, 0.85].
C20_BlendOpacities ==
    /\ secProgress = 0 => IsValue(blendStyle.top, 100)
    /\ secProgress \in 0..15 =>
          blendStyle.top.num * 15 = 100 * (15 - secProgress) * blendStyle.top.den
    /\ secProgress >= 15 => IsValue(blendStyle.top, 0)
    /\ secProgress <= 85 => IsValue(blendStyle.bottom, 0)
    /\ secProgress \in 85..100 =>
          blendStyle.bottom.num * 15 = 100 * (secProgress - 85) * blendStyle.bottom.den
    /\ secProgress = 100 => IsValue(blendStyle.bottom, 100)
    /\ secProgress \in 15..85 =>
          IsValue(blendStyle.top, 0) /\ IsValue(blendStyle.bottom, 0)

C20_Witness ==
    /\ secProgress = 15
    /\ blendStyle.top = Whole(0)
    /\ blendStyle.bottom = Whole(0)

\* the offset f slides from start (at progress 0) to 0 (on [0.25, 0.75]) and
\* on to -start (at progress 1), linearly, at progress p
SlidesFrom(f, start, p) ==
    /\ p <= 25 => f.num * 25 = start * (25 - p) * f.den
    /\ p \in 25..75 => IsValue(f, 0)
    /\ p >= 75 => f.num * 25 = (-start) * (p - 75) * f.den

\* C21: animationDirection selects one axis of SectionWrapper's content
\* offset: "up" slides y 80 -> 0 -> -80 with x = 0, "down" slides y
\* -80 -> 0 -> 80 with x = 0, "left" slides x 80 -> 0 -> -80 with y = 0,
\* "right" slides x -80 -> 0 -> 80 with y = 0, any other value leaves both 0;
\* at every progress at most one of x and y is non-zero.
C21_OneAxis ==
    /\ animationDirection = "up" =>
          SlidesFrom(wrapperStyle.y, 8000, secProgress) /\ IsValue(wrapperStyle.x, 0)
    /\ animationDirection = "down" =>
          SlidesFrom(wrapperStyle.y, -8000, secProgress) /\ IsValue(wrapperStyle.x, 0)
    /\ animationDirection = "left" =>
          SlidesFrom(wrapperStyle.x, 8000, secProgress) /\ IsValue(wrapperStyle.y, 0)
    /\ animationDirection = "right" =>
          SlidesFrom(wrapperStyle.x, -8000, secProgress) /\ IsValue(wrapperStyle.y, 0)
    /\ animationDirection \notin {"up", "down", "left", "right"} =>
          IsValue(wrapperStyle.x, 0) /\ IsValue(wrapperStyle.y, 0)
    /\ IsValue(wrapperStyle.x, 0) \/ IsValue(wrapperStyle.y, 0)

\* a "left" section leaving, at progress 0.87: x is -38.4px, y is 0
C21_Witness ==
    /\ animationDirection = "left"
    /\ secProgress = 87
    /\ wrapperStyle.x = Whole(-3840)
    /\ wrapperStyle.y = Whole(0)

\* every curve the code configures, with the value the components render
\* from it at the current progress
AppliedCurves ==
    {<<BlendTopCurve, blendStyle.top>>,
     <<BlendBottomCurve, blendStyle.bottom>>,
     <<ContentOpacityCurve, wrapperStyle.opacity>>,
     <<ContentYCurve(animationDirection), wrapperStyle.y>>,
     <<ContentXCurve(animationDirection), wrapperStyle.x>>,
     <<ContentScaleCurve, wrapperStyle.scale>>,
     <<EdgeOpacityCurve, faqStyle.opacity>>,
     <<EnterYCurve, faqStyle.y>>,
     <<EnterScaleCurve, faqStyle.scale>>,
     <<EnterYCurve, eliteStyle.y>>,
     <<EnterScaleCurve, eliteStyle.scale>>,
     <<HookOpacityCurve, hookValues.opacity>>,
     <<HookYCurve, hookValues.y>>,
     <<HookScaleCurve, hookValues.scale>>,
     <<HookBlurCurve, hookValues.blur>>}

WellFormed(curve) ==
    /\ Len(curve.input) = Len(curve.output)
    /\ Len(curve.input) >= 2
    /\ \A i \in DOMAIN curve.input : curve.input[i] \in 0..100
    /\ \A i \in 1..(Len(curve.input) - 1) : curve.input[i] < curve.input[i + 1]

\* f is the value of the curve at p
Evaluates(curve, p, f) ==
    LET b == curve.input
        v == curve.output
        n == Len(b)
    IN /\ p <= b[1] => IsValue(f, v[1])
       /\ p >= b[n] => IsValue(f, v[n])
       /\ \A i \in 1..n : p = b[i] => IsValue(f, v[i])
       /\ \A i \in 1..(n - 1) :
             (b[i] < p /\ p < b[i + 1]) =>
                 f.num * (b[i + 1] - b[i]) =
                     (v[i] * (b[i + 1] - b[i]) + (v[i + 1] - v[i]) * (p - b[i])) * f.den

\* C22: every configured control curve has as many breakpoints as values and
\* strictly increasing breakpoints within [0, 1]; its value is the first
\* output below the first breakpoint, the last output above the last, the
\* breakpoint's output at a breakpoint and the linear interpolation of the
\* two bounding outputs in between.
C22_CurveEvaluation ==
    \A a \in AppliedCurves :
        /\ WellFormed(a[1])
        /\ Evaluates(a[1], secProgress, a[2])

\* progress 0.9: above the last breakpoint of the entrance offset (0.2), and
\* a third of the way up the bottom blend's ramp (0.85 .. 1)
C22_Witness ==
    /\ secProgress = 90
    /\ faqStyle.y = Whole(0)
    /\ blendStyle.bottom = [num |-> 100, den |-> 3]
    /\ blendStyle.top = Whole(0)

(***************************************************************************)
(* Properties of the Character Walker                                      *)
(***************************************************************************)
\* the scrollable range, as handleScroll last saw it
MaxScroll == scrollHeight(innerHeight) - innerHeight

\* this step is a call of handleScroll from a scroll or resize event
HandlerStep == charStep'.kind \in {"scroll", "resize"}

\* this step is a call of handleScroll that starts the walking animation
WalkStep ==
    /\ charStep'.kind \in {"scroll", "resize", "mount"}
    /\ Abs(charStep'.delta) > 2

InRange(x) == x.kind = "num" /\ 0 <= x.num /\ x.num <= 100 * x.den

\* C12: when the document is as high as the viewport (maxScroll = 0) the
\* recorded scroll progress is a finite number in [0, 100], never NaN.
C12_ProgressGuarded ==
    (charMounted /\ MaxScroll = 0) => InRange(char.scrollProgress)

\* C13: with a positive scrollable range the recorded progress is
\* 100 * scrollY / maxScroll clamped to [0, 100]: 0 for negative scrollY and
\* 100 for scrollY beyond the maximum.
C13_ProgressClamped ==
    (charMounted /\ MaxScroll > 0) =>
        /\ InRange(char.scrollProgress)
        /\ scrollY <= 0 => char.scrollProgress.num = 0
        /\ scrollY >= MaxScroll => char.scrollProgress.num = 100 * char.scrollProgress.den
        /\ (0 <= scrollY /\ scrollY <= MaxScroll) =>
              char.scrollProgress.num * MaxScroll = 100 * scrollY * char.scrollProgress.den

C13_Witness ==
    /\ charMounted
    /\ charStep.kind = "scroll"
    /\ MaxScroll = 600
    /\ scrollY = 620
    /\ char.scrollProgress = JsNum(100, 1)

\* C14: a scroll event whose delta is at most 1px in magnitude leaves the
\* direction, isWalking and the pending walking timer unchanged.
C14_DeadZoneFrame ==
    [][(HandlerStep /\ Abs(charStep'.delta) <= 2) =>
          /\ char'.direction = char.direction
          /\ char'.isWalking = char.isWalking
          /\ char'.pending = char.pending
          /\ char'.walkingTimeout = char.walkingTimeout]_vars

C14_Witness ==
    /\ charStep.kind = "scroll"
    /\ charStep.delta = 1
    /\ char.direction = -1
    /\ char.isWalking
    /\ char.pending # {}

\* C15: a scroll event whose delta exceeds 1px in magnitude sets the
\* direction to the sign of the delta, and the direction is always 1 or -1.
C15_DirectionIsSign ==
    /\ [](char.direction \in {1, -1})
    /\ [][(HandlerStep /\ charStep'.delta > 2) => char'.direction = 1]_vars
    /\ [][(HandlerStep /\ charStep'.delta < -2) => char'.direction = -1]_vars

C15_Witness ==
    /\ charStep.kind = "scroll"
    /\ charStep.delta < -2
    /\ char.direction = -1

\* C16: a call of handleScroll with a delta above 1px sets isWalking and
\* leaves exactly one walking timer pending, due in 100 ms; only that timer
\* resets isWalking, and once such calls stop isWalking becomes false.
C16_WalkingDebounce ==
    /\ [][WalkStep =>
            /\ char'.isWalking
            /\ char'.pending = {[id |-> char'.walkingTimeout, remaining |-> 100]}]_vars
    /\ [][(char.isWalking /\ ~char'.isWalking) =>
            /\ charStep'.kind \in {"timeout", "mount"}
            /\ charStep'.kind = "timeout" =>
                  \E t \in char.pending : t.remaining = 0 /\ t.id = char.walkingTimeout]_vars
    /\ []((charMounted /\ char.isWalking) => char.pending # {})
    /\ ([]<><<WalkStep>>_vars) \/ <>[](charMounted => ~char.isWalking)

C16_Witness ==
    /\ charMounted
    /\ charStep.kind = "timeout"
    /\ ~char.isWalking
    /\ char.pending = {}

\* C17: a call of handleScroll with a footer present sets footerHeight to
\* max(0, viewport height - footer top), never negative; with no footer it
\* keeps footerHeight and still updates progress and direction.
C17_FooterClearance ==
    /\ [](char.footerHeight >= 0)
    /\ [][(HandlerStep /\ hasFooter') =>
            LET top == Max(docHeight', innerHeight') - footerSize' - scrollY'
            IN char'.footerHeight =
                  (IF innerHeight' - top > 0 THEN innerHeight' - top ELSE 0)]_vars
    /\ [][(HandlerStep /\ ~hasFooter') =>
            /\ char'.footerHeight = char.footerHeight
            /\ char'.lastScrollY = scrollY'
            /\ char'.scrollProgress =
                  Progress(scrollY', Max(docHeight', innerHeight') - innerHeight')
            /\ charStep'.delta > 2 => char'.direction = 1
            /\ charStep'.delta < -2 => char'.direction = -1]_vars

C17_Witness ==
    /\ charStep.kind = "scroll"
    /\ ~hasFooter
    /\ char.footerHeight > 0
    /\ char.lastScrollY = scrollY

\* C28: handleScroll records the previous scrollY on every event, also inside
\* the dead zone: while mounted the recorded scrollY is the window's, so an
\* event that moves the window by at most 1px changes neither isWalking nor
\* the direction whatever distance earlier events have covered, and the
\* progress still follows scrollY.
C28_SlowScrollNeverWalks ==
    /\ [](charMounted => char.lastScrollY = scrollY)
    /\ [][(HandlerStep /\ Abs(scrollY' - scrollY) <= Px(DeadZonePx)) =>
            /\ char'.isWalking = char.isWalking
            /\ char'.direction = char.direction]_vars
    /\ []((charMounted /\ 0 <= scrollY /\ scrollY <= MaxScroll /\ MaxScroll > 0) =>
            /\ char.scrollProgress.kind = "num"
            /\ char.scrollProgress.num * MaxScroll = 100 * scrollY * char.scrollProgress.den)

\* the window has crept 1.5px from the top in steps of at most 1px: no call
\* of handleScroll has ever set a walking timer, and the progress is 0.5%
C28_Witness ==
    /\ charMounted
    /\ charStep.kind = "scroll"
    /\ scrollY = 3
    /\ char.lastScrollY = 3
    /\ char.walkingTimeout = CharInitial.walkingTimeout
    /\ ~char.isWalking
    /\ char.direction = CharInitial.direction
    /\ MaxScroll = 600
    /\ char.scrollProgress = JsNum(1, 2)

\* C30: at most one walking timeout is pending at any time, the unmount
\* leaves none pending, and while the component is unmounted no timer
\* callback runs and isWalking is not written.
C30_SingleTimer ==
    /\ [](Cardinality(char.pending) <= 1)
    /\ [](\A t \in char.pending : t.id = char.walkingTimeout)
    /\ [](~charMounted => (char.pending = {} /\ charStep.kind # "timeout"))
    /\ [][(~charMounted /\ ~charMounted') => char'.isWalking = char.isWalking]_vars

\* unmounted in mid-walk: the timer was cancelled before it could fire, and
\* the window has scrolled since
C30_Witness ==
    /\ ~charMounted
    /\ charStep.kind = "unheard"
    /\ char.isWalking
    /\ char.walkingTimeout # CharInitial.walkingTimeout
    /\ char.pending = {}

(***************************************************************************)
(* Properties of the listener lifecycle                                    *)
(***************************************************************************)
Owners == {"Character", "Faq", "Navbar", "ActiveSection"}

Mounted(o) ==
    CASE o = "Character" -> charMounted
      [] o = "Faq" -> faqMounted
      [] o = "Navbar" -> navMounted
      [] o = "ActiveSection" -> activeMounted

\* the listeners and observers of an owner that are attached
Attached(o) ==
    IF o = "ActiveSection" THEN observers ELSE {l \in listeners : l[2] = o}

AllAttached == listeners \cup observers

\* the state an owner's handlers write
OwnerState(o) ==
    CASE o = "Character" -> <<char>>
      [] o = "Faq" -> <<cols, columns>>
      [] o = "Navbar" -> <<nav>>
      [] o = "ActiveSection" -> <<activeSection>>

\* the last step that concerned the owner was a run of one of its handlers
Heard(o) ==
    CASE o = "Character" -> charStep.kind \in {"scroll", "resize", "timeout"}
      [] o = "Faq" -> lastEvent = "resize"
      [] o = "Navbar" -> navStep = "scroll"
      [] o = "ActiveSection" -> activeStep = "intersection"

\* C11: each of ScrollProgressCharacter, Faq, useNavbarScroll and
\* useActiveSection detaches on teardown everything it attached.  While an
\* owner is not mounted none of its listeners or observers is attached and no
\* event has run its handler; no step changes the state of an owner that
\* stays unmounted; the unmount removes exactly the owner's listeners and the
\* mount adds only the owner's, so that (an unmounted owner having none
\* attached) the set of attached listeners after the unmount is the set from
\* before the mount, up to what other owners did in between.
C11_ListenersDetached ==
    /\ [](\A o \in Owners : ~Mounted(o) => (Attached(o) = {} /\ ~Heard(o)))
    /\ [][\A o \in Owners :
            (~Mounted(o) /\ ~Mounted(o)') => OwnerState(o)' = OwnerState(o)]_vars
    /\ [][\A o \in Owners :
            (Mounted(o) /\ ~Mounted(o)') => AllAttached' = AllAttached \ Attached(o)]_vars
    /\ [][\A o \in Owners :
            (~Mounted(o) /\ Mounted(o)') =>
                /\ AllAttached \subseteq AllAttached'
                /\ AllAttached' \ AllAttached = Attached(o)']_vars

\* every owner was mounted and heard events, all four have unmounted, and a
\* scroll, a resize and an intersection event have since found no listener
C11_Witness ==
    /\ \A o \in Owners : ~Mounted(o)
    /\ AllAttached = {}
    /\ char.lastScrollY # CharInitial.lastScrollY
    /\ prevCols # 0
    /\ nav # NavInitial
    /\ activeSection # InitialActive(ObservedIds)
    /\ charStep.kind = "unheard"
    /\ lastEvent = "unheard"
    /\ navStep = "unheard"
    /\ activeStep = "unheard"

MoreThanThreshold == {id \in observers : ratios[id] > RatioThreshold}

\* C24: after an intersection callback the id useActiveSection returns is
\* that of the most visible tracked section: of the observed sections more
\* than 30% visible, one with the greatest intersection ratio.
C24_MostVisible ==
    (activeMounted /\ activeStep = "intersection" /\ MoreThanThreshold # {}) =>
        /\ activeSection \in MoreThanThreshold
        /\ \A id \in MoreThanThreshold : ratios[activeSection] >= ratios[id]

\* C25: while mounted, useNavbarScroll holds isScrolled = (scrollY >
\* threshold), strictly, and isAtHero = (scrollY < innerHeight / 2), for the
\* scrollY and innerHeight of its latest handleScroll: the one of the mount
\* or of the latest scroll event, which is the window's current scrollY.
C25_NavbarFlags ==
    navMounted =>
        /\ nav.isScrolled = (navSeen.scrollY > NavThreshold)
        /\ nav.isAtHero = (2 * navSeen.scrollY < navSeen.innerHeight)
        /\ navSeen.scrollY = scrollY
        /\ (navSeen.scrollY = NavThreshold) => ~nav.isScrolled

\* a scroll event to exactly the threshold, in the hero half of the viewport
C25_Witness ==
    /\ navMounted
    /\ navStep = "scroll"
    /\ scrollY = NavThreshold
    /\ ~nav.isScrolled
    /\ nav.isAtHero

(***************************************************************************)
(* Properties of the Elite tab panel                                       *)
(***************************************************************************)
\* the elite events of faqData.js with this id
EliteWithId(tab) == {i \in DOMAIN Events : Events[i].isElite /\ Events[i].id = tab}

\* C27: activeTab is the id of the first elite event until a tab is clicked
\* and the id of the tab clicked last afterwards; it is always the id of
\* exactly one elite event, so exactly one tab button is active and
\* eliteEvents.find(...) returns an event, never undefined.
C27_ActiveTab ==
    eliteMounted =>
        /\ lastClicked = 0 => activeTab = eliteEvents[1].id
        /\ lastClicked # 0 => activeTab = lastClicked
        /\ Cardinality(EliteWithId(activeTab)) = 1
        /\ Cardinality(Matching(activeTab)) = 1

\* the third tab was clicked last, after the section had scrolled into view
C27_Witness ==
    /\ eliteMounted
    /\ lastClicked = 3
    /\ activeTab = 3
    /\ secProgress = 50

====
